---- MODULE Spec2Model ----
(***************************************************************************)
(* Model of the Discord "events -> ics" bot: the per-user JSON index and   *)
(* .ics feed in DATA_DIR, rebuild_calendar, the gateway handlers, the      *)
(* poller and the back-fill sync.  asyncio runs one coroutine at a time    *)
(* and switches only at an await that really suspends, so every action is  *)
(* the code between two such awaits.  Writes of DATA_DIR are taken to      *)
(* succeed.  The calls whose failure the model draws are the fetch of a    *)
(* scheduled event, the read of an index file (load_index) and the DM of   *)
(* /mycalendar (fetch_user, send).                                          *)
(***************************************************************************)
EXTENDS Integers, Sequences, FiniteSets, TLC

\* ------------------------------------------------------------------ bounds
MaxUser == 2
MaxEvent == 2
MaxTask == 2
MaxGuild == 2

Users == 1..MaxUser
Tasks == 1..MaxTask
\* User.id / event.id that _to_int cannot resolve (None)
NoUser == 0
\* bot.guilds
Guilds == 1..MaxGuild

\* The k-th scheduled event of the model as an index record {guild_id, id}:
\* ids are unique snowflakes, the events alternate between the two guilds.
Rec(k) == [guild_id |-> ((k - 1) % MaxGuild) + 1, id |-> k]
Events == {Rec(k) : k \in 1..MaxEvent}
\* A scheduled-event object whose id does not resolve (eid is None)
NoEvent == [guild_id |-> 1, id |-> 0]

VARIABLES
  files,     \* names present in DATA_DIR: [stem, ext]
  idxData,   \* idxData[u]: the list stored in <u>.json
  icsData,   \* icsData[u]: the VEVENTs stored in <u>.ics
  evState,   \* evState[e]: "live" | "deleted", the event on Discord
  tasks,     \* tasks[t]: a running coroutine (handler, poller cycle, sync)
  raw,       \* raw[u]: what the text of <u>.json is ("list": json.dumps(idxData[u]))
  spawn,     \* asyncio.create_task calls: coroutines made, and those that began to run
  call,      \* a direct call of a helper: its arguments and what it returned
  guildAlerts  \* guildAlerts[g]: the reminders stored for guild g, <<>> when none

vars == <<files, idxData, icsData, evState, tasks, raw, spawn, call, guildAlerts>>

\* ------------------------------------------------------------ sequences
RECURSIVE SelectRecs(_, _, _)
\* [r for r in idx if keep(r)]: list comprehension, order kept
SelectRecs(idx, drop, i) ==
  IF i > Len(idx) THEN <<>>
  ELSE (IF idx[i] \in drop THEN <<>> ELSE <<idx[i]>>) \o SelectRecs(idx, drop, i + 1)

Range(s) == {s[i] : i \in 1..Len(s)}
Count(s, x) == Cardinality({i \in 1..Len(s) : s[i] = x})

RECURSIVE SortedSeq(_)
\* a finite set of integers as an ascending sequence
SortedSeq(S) ==
  IF S = {} THEN <<>>
  ELSE LET m == CHOOSE x \in S : \A y \in S : x <= y IN <<m>> \o SortedSeq(S \ {m})

Min(S) == CHOOSE x \in S : \A y \in S : x <= y

RECURSIVE Sorted(_)
\* sorted(list): ascending, equal items kept
Sorted(s) ==
  IF s = <<>> THEN <<>>
  ELSE LET i == CHOOSE k \in 1..Len(s) : \A j \in 1..Len(s) : s[k] <= s[j]
       IN <<s[i]>> \o Sorted(SubSeq(s, 1, i - 1) \o SubSeq(s, i + 1, Len(s)))

Perms(S) == {p \in [1..Cardinality(S) -> S] : \A i, j \in 1..Cardinality(S) : p[i] = p[j] => i = j}

\* --------------------------------------------------------------- strings
\* A str is the sequence of its characters.
Chars(s) == [i \in 1..Len(s) |-> SubSeq(s, i, i)]
StartsWith(s, p) == Len(p) <= Len(s) /\ SubSeq(s, 1, Len(p)) = p
\* `p in s`
Contains(s, p) == \E i \in 0..(Len(s) - Len(p)) : SubSeq(s, i + 1, i + Len(p)) = p
\* s.find(p, start) on 1-based positions: the first match at or after `from`, 0 if none
Find(s, p, from) ==
  LET hits == {i \in from..(Len(s) - Len(p) + 1) : SubSeq(s, i, i + Len(p) - 1) = p}
  IN IF hits = {} THEN 0 ELSE CHOOSE i \in hits : \A j \in hits : i <= j

RECURSIVE RStrip(_, _)
\* s.rstrip(c)
RStrip(s, c) ==
  IF s # <<>> /\ s[Len(s)] = c THEN RStrip(SubSeq(s, 1, Len(s) - 1), c) ELSE s

RECURSIVE SkipWhile(_, _, _)
\* the first position at or after i whose character is not in cs
SkipWhile(s, i, cs) ==
  IF i <= Len(s) /\ s[i] \in cs THEN SkipWhile(s, i + 1, cs) ELSE i

Whitespace == {" "}
DigitChars == {"0", "1", "2", "3", "4", "5", "6", "7", "8", "9"}

\* s.strip()
Strip(s) == RStrip(SubSeq(s, SkipWhile(s, 1, Whitespace), Len(s)), " ")

RECURSIVE Digits(_)
\* str(n) for an int n >= 0
Digits(n) == IF n < 10 THEN <<ToString(n)>> ELSE Digits(n \div 10) \o <<ToString(n % 10)>>

RECURSIVE ParseInt(_)
\* the integer a string of digits spells
ParseInt(ds) ==
  IF ds = <<>> THEN 0
  ELSE 10 * ParseInt(SubSeq(ds, 1, Len(ds) - 1))
         + (CHOOSE d \in 0..9 : ToString(d) = ds[Len(ds)])

\* int(s) for a str: surrounding whitespace and one sign are accepted, then digits
\* only; ok is FALSE where int raises ValueError
IntOf(s) ==
  LET b      == Strip(s)
      signed == b # <<>> /\ b[1] \in {"+", "-"}
      ds     == IF signed THEN Tail(b) ELSE b
  IN IF ds = <<>> \/ \E i \in 1..Len(ds) : ds[i] \notin DigitChars
     THEN [ok |-> FALSE, val |-> 0]
     ELSE [ok |-> TRUE, val |-> IF signed /\ b[1] = "-" THEN 0 - ParseInt(ds) ELSE ParseInt(ds)]

\* all strings over an alphabet, up to a length
StringsUpTo(alphabet, n) == UNION {[1..k -> alphabet] : k \in 0..n}

\* ------------------------------------------------------------------ config
MaxUrlLen == 6
\* a letter, and the two characters urlparse splits a base URL at
UrlChars == {"h", ":", "/"}
\* BASE_URL = os.getenv("BASE_URL", ...).rstrip("/")
BaseUrls == {RStrip(env, "/") : env \in StringsUpTo(UrlChars, MaxUrlLen)}

\* urlparse(url).netloc: an optional scheme (letters up to the first ":"), then,
\* if "//" follows, the text up to the next "/"
Netloc(url) ==
  LET i    == Find(url, <<":">>, 1)
      rest == IF i > 1 /\ \A j \in 1..(i - 1) : url[j] \notin {":", "/"}
              THEN SubSeq(url, i + 1, Len(url))
              ELSE url
      d    == Find(rest, <<"/">>, 3)
  IN IF StartsWith(rest, <<"/", "/">>)
     THEN SubSeq(rest, 3, IF d = 0 THEN Len(rest) ELSE d - 1)
     ELSE <<>>

\* ------------------------------------------------------------ file_helpers
\* feed_url(uid), with BASE_URL as config.py set it
FeedUrl(base, uid) ==
  Chars("webcal://") \o Netloc(base) \o Chars("/cal/") \o Digits(uid) \o Chars(".ics")

IdxPath(uid) == [stem |-> ToString(uid), ext |-> "json"]
IcsPath(uid) == [stem |-> ToString(uid), ext |-> "ics"]
\* a *.json file of DATA_DIR whose stem is no integer
StrayFile == [stem |-> "alerts", ext |-> "json"]

ValueError == -1
\* int(json_idx.stem): the user id, or ValueError
IntOfStem(stem) ==
  IF \E u \in Users : ToString(u) = stem
  THEN CHOOSE u \in Users : ToString(u) = stem
  ELSE ValueError

\* DATA_DIR.glob("*.json")
GlobJson(fs) == {f \in fs : f.ext = "json"}

EmptyLog == [new |-> {}, sav |-> {}, ics |-> {}, reb |-> {}, seen |-> {}, gone |-> {}]
NoLast == [uid |-> NoUser, idx |-> <<>>, outs |-> <<>>, index |-> <<>>, ics |-> {}]
NoPre == [files |-> {}, idxData |-> [u \in Users |-> <<>>], icsData |-> [u \in Users |-> {}],
          made |-> 0]

Note(w, field, x) ==
  IF w.t.track THEN [w EXCEPT !.t.log[field] = @ \cup {x}] ELSE w

\* what the text of an index file can be: the JSON of a list, nothing but
\* whitespace, no JSON at all, the JSON of a number / null / true, or unreadable
RawKinds == {"list", "blank", "junk", "scalar", "locked"}

\* the exceptions the body of load_index can raise; all derive from Exception
NoExc == "none"
ExceptionSubclasses ==
  {"FileNotFoundError", "PermissionError", "JSONDecodeError", "TypeError"}

\* the `try` body of load_index: read_text, json.loads unless blank, len(index)
TryLoadIndex(w, uid) ==
  IF IdxPath(uid) \notin w.files THEN [exc |-> "FileNotFoundError", val |-> <<>>]
  ELSE CASE w.raw[uid] = "locked" -> [exc |-> "PermissionError", val |-> <<>>]
         [] w.raw[uid] = "blank"  -> [exc |-> NoExc, val |-> <<>>]
         [] w.raw[uid] = "junk"   -> [exc |-> "JSONDecodeError", val |-> <<>>]
         [] w.raw[uid] = "scalar" -> [exc |-> "TypeError", val |-> <<>>]
         [] w.raw[uid] = "list"   -> [exc |-> NoExc, val |-> w.idxData[uid]]

\* LoadOutcome with `except OSError` in place of `except Exception`
LoadOutcomeOSErrorOnly(w, uid) ==
  LET r == TryLoadIndex(w, uid)
  IN IF r.exc \in {"FileNotFoundError", "PermissionError"}
     THEN [exc |-> NoExc, val |-> <<>>]
     ELSE r

\* load_index: what it returns (val) and what it lets escape (exc)
LoadOutcome(w, uid) ==
  LET r == TryLoadIndex(w, uid)
  IN IF r.exc \in ExceptionSubclasses THEN [exc |-> NoExc, val |-> <<>>] ELSE r

LoadIndex(w, uid) == LoadOutcome(w, uid).val

WriteIndex(w, uid, idx) ==
  [w EXCEPT !.files = @ \cup {IdxPath(uid)}, !.idxData[uid] = idx, !.raw[uid] = "list"]

SaveIndex(w, uid, idx) == Note(WriteIndex(w, uid, idx), "sav", uid)

WriteIcs(w, uid, cal) ==
  [w EXCEPT !.files = @ \cup {IcsPath(uid)}, !.icsData[uid] = cal]

\* EnsureFiles with the calendar created only inside `if not idx_file.exists()`
EnsureFilesNested(w, uid) ==
  IF IdxPath(uid) \notin w.files
  THEN LET w1 == Note(WriteIndex(w, uid, <<>>), "new", IdxPath(uid))
       IN IF IcsPath(uid) \notin w1.files
          THEN Note(WriteIcs(w1, uid, {}), "new", IcsPath(uid))
          ELSE w1
  ELSE w

\* EnsureFiles without the `if not ....exists()` tests: both files are rewritten
EnsureFilesAlways(w, uid) ==
  Note(WriteIcs(Note(WriteIndex(w, uid, <<>>), "new", IdxPath(uid)), uid, {}),
       "new", IcsPath(uid))

EnsureFiles(w, uid) ==
  LET w1 == IF IdxPath(uid) \notin w.files
            THEN Note(WriteIndex(w, uid, <<>>), "new", IdxPath(uid))
            ELSE w
  IN IF IcsPath(uid) \notin w1.files
     THEN Note(WriteIcs(w1, uid, {}), "new", IcsPath(uid))
     ELSE w1

\* ------------------------------------------------------------------ server
\* the path of a URL: what follows the netloc
UrlPath(url) ==
  LET i    == Find(url, Chars("://"), 1)
      rest == IF i = 0 THEN url ELSE SubSeq(url, i + 3, Len(url))
      j    == Find(rest, Chars("/"), 1)
  IN IF j = 0 THEN <<>> ELSE SubSeq(rest, j, Len(rest))

\* the route "/cal/{id}.ics": the id a path matches with, <<>> where it does not match
RouteId(path) ==
  LET id == SubSeq(path, 6, Len(path) - 4)
  IN IF /\ StartsWith(path, Chars("/cal/"))
        /\ Len(path) > 9
        /\ SubSeq(path, Len(path) - 3, Len(path)) = Chars(".ics")
        /\ \A i \in 1..Len(id) : id[i] \notin {"/", "{", "}"}
     THEN id ELSE <<>>

HandleFeedNoExistsTest(fs, id) == IF IntOf(id).ok THEN 200 ELSE 404

\* handle_feed(request) with match_info["id"] = id: the status of the response
HandleFeed(fs, id) ==
  IF ~IntOf(id).ok THEN 404
  ELSE IF IcsPath(IntOf(id).val) \notin fs THEN 404
  ELSE 200

\* ------------------------------------------------------------ create_task
\* the coroutines the bot hands to asyncio.create_task, by function and argument
Coros ==
  {<<"run_http", NoUser>>, <<"poll_new_events", NoUser>>, <<"sync_existing_events", NoUser>>}
    \cup {<<"_rebuild_async", u>> : u \in Users}
NoSpawn == [made |-> [k \in Coros |-> 0], run |-> [k \in Coros |-> 0]]
\* asyncio.create_task(coro)
CreateTask(w, k) == [w EXCEPT !.spawn.made[k] = @ + 1]

NoCall == [fn |-> "none"]

\* --------------------------------------------------------- calendar_builder
\* None where a datetime is expected
NoTime == 0
\* datetimes are counted in ticks; .timestamp() is in seconds
TicksPerSecond == 2
Hour == 3600 * TicksPerSecond

\* ev.entity_metadata is None
NoMeta == [some |-> FALSE, location |-> <<>>, location_url |-> <<>>, channel_id |-> 0,
           channel_name |-> <<>>]

\* the ScheduledEvent Discord returns for an index record; a str that is None or ""
\* is <<>> (the code only tests such values for truth)
Fetched(rec) ==
  [id |-> rec.id, guild_id |-> rec.guild_id, name |-> Chars("e"),
   start_time |-> Hour, end_time |-> NoTime, description |-> <<>>, recurrence |-> <<>>,
   entity_metadata |-> NoMeta,
   updated_at |-> NoTime, last_updated_at |-> NoTime, edited_timestamp |-> NoTime]

\* ics.Event()
NewEvent ==
  [uid |-> <<>>, extra |-> <<>>, name |-> <<>>, begin |-> NoTime, end |-> NoTime,
   description |-> <<>>, location |-> <<>>, geo |-> <<>>, url |-> <<>>]

\* _add_prop
AddProp(component, name, value) ==
  [component EXCEPT !.extra = Append(@, [name |-> name, value |-> value])]

\* `-?\d{1,3}\.\d+` matched at position i: the position after the match, 0 if none
MatchNumber(s, i) ==
  LET a == IF i <= Len(s) /\ s[i] = "-" THEN i + 1 ELSE i
      b == SkipWhile(s, a, DigitChars)
      c == SkipWhile(s, b + 1, DigitChars)
  IN IF b - a >= 1 /\ b - a <= 3 /\ b <= Len(s) /\ s[b] = "." /\ c > b + 1 THEN c ELSE 0

\* LatLonMatch with `\d+` in place of `\d{1,3}`: any number of integer digits
LatLonMatchAnyDigits(loc) ==
  LET i1 == SkipWhile(loc, 1, Whitespace)
      a1 == IF i1 <= Len(loc) /\ loc[i1] = "-" THEN i1 + 1 ELSE i1
      b1 == SkipWhile(loc, a1, DigitChars)
      c1 == SkipWhile(loc, b1 + 1, DigitChars)
      e1 == IF b1 > a1 /\ b1 <= Len(loc) /\ loc[b1] = "." /\ c1 > b1 + 1 THEN c1 ELSE 0
      i2 == IF e1 # 0 /\ e1 <= Len(loc) /\ loc[e1] = ","
            THEN SkipWhile(loc, e1 + 1, Whitespace) ELSE 0
      a2 == IF i2 # 0 /\ i2 <= Len(loc) /\ loc[i2] = "-" THEN i2 + 1 ELSE i2
      b2 == SkipWhile(loc, a2, DigitChars)
      c2 == SkipWhile(loc, b2 + 1, DigitChars)
      e2 == IF i2 # 0 /\ b2 > a2 /\ b2 <= Len(loc) /\ loc[b2] = "." /\ c2 > b2 + 1
            THEN c2 ELSE 0
  IN IF e2 # 0 /\ SkipWhile(loc, e2, Whitespace) = Len(loc) + 1
     THEN [ok |-> TRUE, g1 |-> SubSeq(loc, i1, e1 - 1), g2 |-> SubSeq(loc, i2, e2 - 1)]
     ELSE [ok |-> FALSE, g1 |-> <<>>, g2 |-> <<>>]

\* _LAT_LON.match(loc): `^\s*(-?\d{1,3}\.\d+),\s*(-?\d{1,3}\.\d+)\s*$` and its groups
LatLonMatch(loc) ==
  LET i1 == SkipWhile(loc, 1, Whitespace)
      e1 == MatchNumber(loc, i1)
      i2 == IF e1 # 0 /\ e1 <= Len(loc) /\ loc[e1] = ","
            THEN SkipWhile(loc, e1 + 1, Whitespace) ELSE 0
      e2 == IF i2 # 0 THEN MatchNumber(loc, i2) ELSE 0
  IN IF e2 # 0 /\ SkipWhile(loc, e2, Whitespace) = Len(loc) + 1
     THEN [ok |-> TRUE, g1 |-> SubSeq(loc, i1, e1 - 1), g2 |-> SubSeq(loc, i2, e2 - 1)]
     ELSE [ok |-> FALSE, g1 |-> <<>>, g2 |-> <<>>]

\* quote_plus of one character: a space is "+", reserved characters are escaped
QuoteChar(c) ==
  CASE c = " " -> <<"+">>
    [] c = "," -> Chars("%2C")
    [] c = ";" -> Chars("%3B")
    [] c = "+" -> Chars("%2B")
    [] c = "/" -> Chars("%2F")
    [] c = ":" -> Chars("%3A")
    [] OTHER   -> <<c>>

RECURSIVE QuotePlus(_)
QuotePlus(s) == IF s = <<>> THEN <<>> ELSE QuoteChar(Head(s)) \o QuotePlus(Tail(s))

\* _apply_location; Geo(latitude, longitude) holds the two numerals float() is given
ApplyLocation(e, meta, guild_id, ev_id) ==
  IF ~meta.some THEN e
  ELSE IF meta.location # <<>>
       THEN LET m == LatLonMatch(meta.location)
            IN IF m.ok
               THEN [e EXCEPT !.location = meta.location, !.geo = <<m.g1, m.g2>>]
               ELSE [e EXCEPT !.location = meta.location,
                              !.url = Chars("https://www.google.com/maps/search/")
                                        \o QuotePlus(meta.location)]
       ELSE IF meta.location_url # <<>>
            THEN [e EXCEPT !.location = meta.location_url, !.url = meta.location_url]
            ELSE IF meta.channel_id # 0
                 THEN LET chan_name == IF meta.channel_name # <<>> THEN meta.channel_name
                                       ELSE Chars("id ") \o Digits(meta.channel_id)
                      IN [e EXCEPT !.location = Chars("Discord channel: ") \o chan_name,
                                   !.url = Chars("https://discord.com/events/")
                                             \o Digits(guild_id) \o <<"/">> \o Digits(ev_id)]
                 ELSE e

\* ApplyRecurrence that returns after the first rule
ApplyRecurrenceFirstOnly(e, recurrence) ==
  IF recurrence = <<>> THEN e ELSE AddProp(e, "RRULE", Head(recurrence))

RECURSIVE ApplyRecurrence(_, _)
\* _apply_recurrence
ApplyRecurrence(e, recurrence) ==
  IF recurrence = <<>> THEN e
  ELSE ApplyRecurrence(AddProp(e, "RRULE", Head(recurrence)), Tail(recurrence))

\* EventUid with the two ids side by side: f"{ev.id}{guild_id}@discord"
EventUidNoSeparator(ev, gid) == Digits(ev.id) \o Digits(gid) \o Chars("@discord")

\* f"{ev.id}@discord-{guild_id}"
EventUid(ev, gid) == Digits(ev.id) \o Chars("@discord-") \o Digits(gid)

\* `updated_at or last_updated_at or edited_timestamp`
LastEdit(ev) ==
  IF ev.updated_at # NoTime THEN ev.updated_at
  ELSE IF ev.last_updated_at # NoTime THEN ev.last_updated_at
  ELSE ev.edited_timestamp

\* event_to_ics: the VEVENT of a fetched event
EventToIcs(ev, gid) ==
  LET e1 == [NewEvent EXCEPT !.uid = EventUid(ev, gid)]
      e2 == IF LastEdit(ev) # NoTime
            THEN AddProp(e1, "SEQUENCE", Digits(LastEdit(ev) \div TicksPerSecond))
            ELSE e1
      e3 == [e2 EXCEPT !.name = ev.name,
                       !.begin = ev.start_time,
                       !.end = IF ev.end_time # NoTime THEN ev.end_time
                               ELSE ev.start_time + Hour,
                       !.description = Strip(ev.description)]
  IN ApplyLocation(ApplyRecurrence(e3, ev.recurrence), ev.entity_metadata, gid, ev.id)

\* what `await bot.fetch_scheduled_event(gid, eid)` can give
FetchOutcomes(state) ==
  IF state = "live" THEN {"ok", "error"} ELSE {"e404", "none"}

Matches(r, gid, eid) == r.id = eid /\ r.guild_id = gid
Tracked(idx, gid, eid) == \E i \in 1..Len(idx) : Matches(idx[i], gid, eid)

\* RebuildExit with the write of the .ics file moved under `if updated_idx != idx`
RebuildExitKeepsFeed(w) ==
  LET t  == w.t
      w1 == IF t.updated_idx # t.idx
            THEN Note(WriteIcs(SaveIndex(w, t.uid, t.updated_idx), t.uid, t.cal), "ics", t.uid)
            ELSE w
  IN [w1 EXCEPT !.t.pc = "ret",
                !.t.last = IF t.track
                           THEN [uid |-> t.uid, idx |-> t.idx, outs |-> t.outs,
                                 index |-> LoadIndex(w1, t.uid), ics |-> w1.icsData[t.uid]]
                           ELSE @]

\* the end of rebuild_calendar, after its loop: save the pruned index, write the feed
RebuildExit(w) ==
  LET t  == w.t
      w1 == IF t.updated_idx # t.idx THEN SaveIndex(w, t.uid, t.updated_idx) ELSE w
      w2 == Note(WriteIcs(w1, t.uid, t.cal), "ics", t.uid)
  IN [w2 EXCEPT !.t.pc = "ret",
                !.t.last = IF t.track
                           THEN [uid |-> t.uid, idx |-> t.idx, outs |-> t.outs,
                                 index |-> LoadIndex(w2, t.uid), ics |-> w2.icsData[t.uid]]
                           ELSE @]

\* rebuild_calendar up to its first await: with an empty idx it runs to its end
RebuildCalendar(w, uid, idx) ==
  LET w1 == Note([w EXCEPT !.t.uid = uid, !.t.idx = idx, !.t.pos = 1,
                           !.t.updated_idx = <<>>, !.t.cal = {},
                           !.t.outs = <<>>], "reb", uid)
  IN IF idx = <<>> THEN RebuildExit(w1) ELSE [w1 EXCEPT !.t.pc = "fetch"]

\* FetchStep with the `!= 404` test lost: a record is dropped on any exception
FetchStepDropsOnError(w, o) ==
  LET t   == w.t
      rec == t.idx[t.pos]
      ev  == Fetched(rec)
      w1  == [w EXCEPT !.t.outs = IF t.track THEN Append(@, o) ELSE @,
                       !.t.pos = @ + 1]
  IN IF o = "ok"
     THEN [w1 EXCEPT !.t.cal = @ \cup {EventToIcs(ev, rec.guild_id)},
                     !.t.updated_idx = Append(@, rec)]
     ELSE w1

\* one pass of the loop body once the fetch of idx[pos] has returned
FetchStep(w, o) ==
  LET t   == w.t
      rec == t.idx[t.pos]
      ev  == Fetched(rec)
      w1  == [w EXCEPT !.t.outs = IF t.track THEN Append(@, o) ELSE @,
                       !.t.pos = @ + 1]
  IN CASE o = "ok"    -> [w1 EXCEPT !.t.cal = @ \cup {EventToIcs(ev, rec.guild_id)},
                                    !.t.updated_idx = Append(@, rec)]
       [] o = "none"  -> w1
       [] o = "e404"  -> w1
       [] o = "error" -> [w1 EXCEPT !.t.updated_idx = Append(@, rec)]

\* ------------------------------------------------------------------ tasks
IdleTask ==
  [kind |-> "idle", pc |-> "idle", track |-> FALSE, ev |-> NoEvent, user |-> NoUser,
   todo |-> <<>>, evs |-> <<>>, subs |-> <<>>, guilds |-> <<>>,
   uid |-> NoUser, idx |-> <<>>, pos |-> 0, updated_idx |-> <<>>, cal |-> {},
   outs |-> <<>>, log |-> EmptyLog, pre |-> NoPre, last |-> NoLast,
   link |-> <<>>, dm |-> "none", dm_ok |-> FALSE, reply |-> "none", exc |-> NoExc]

World(t) ==
  [files |-> files, idxData |-> idxData, icsData |-> icsData, raw |-> raw,
   spawn |-> spawn, t |-> tasks[t]]

Commit(t, w) ==
  \E v \in {w} :
    /\ files' = v.files
    /\ idxData' = v.idxData
    /\ icsData' = v.icsData
    /\ raw' = v.raw
    /\ spawn' = v.spawn
    /\ tasks' = [tasks EXCEPT ![t] = v.t]

\* the handler returned; its frame (locals) is kept only while it is observed
Done(w) ==
  IF w.t.track THEN [w EXCEPT !.t.pc = "done"]
  ELSE [w EXCEPT !.t = [IdleTask EXCEPT !.kind = w.t.kind, !.pc = "done"]]

\* a coroutine is created for a dispatched gateway event, command or timer
Fresh(t, kind, ev, user, seq) ==
  [files |-> files, idxData |-> idxData, icsData |-> icsData, raw |-> raw,
   spawn |-> spawn,
   t |-> [IdleTask EXCEPT !.kind = kind, !.pc = "run", !.track = seq, !.ev = ev,
                          !.user = user,
                          !.pre = IF seq THEN [files |-> files, idxData |-> idxData,
                                               icsData |-> icsData,
                                               made |-> IF user \in Users
                                                        THEN spawn.made[<<"_rebuild_async", user>>]
                                                        ELSE 0]
                                  ELSE NoPre]]

\* seq: handlers run one at a time, each to its end, before the next is dispatched
CanStart(t, seq) ==
  /\ tasks[t].kind = "idle"
  /\ \A s \in Tasks : s < t => tasks[s].kind # "idle"
  /\ seq => \A s \in Tasks : tasks[s].kind = "idle"

\* ---------------------------------------------------------- event_handlers
\* OnUserAdd without the `if not any(...)` test: the record is always appended
OnUserAddAlways(w) ==
  LET gid == w.t.ev.guild_id
      eid == w.t.ev.id
      uid == w.t.user
  IN IF uid = NoUser \/ eid = NoEvent.id THEN Done(w)
     ELSE LET w1   == EnsureFiles(w, uid)
              idx  == LoadIndex(w1, uid)
              idx2 == Append(idx, [guild_id |-> gid, id |-> eid])
          IN RebuildCalendar(SaveIndex(w1, uid, idx2), uid, idx2)

OnUserAdd(w) ==
  LET gid == w.t.ev.guild_id
      eid == w.t.ev.id
      uid == w.t.user
  IN IF uid = NoUser \/ eid = NoEvent.id THEN Done(w)
     ELSE LET w1  == EnsureFiles(w, uid)
              idx == LoadIndex(w1, uid)
          IN IF ~Tracked(idx, gid, eid)
             THEN LET idx2 == Append(idx, [guild_id |-> gid, id |-> eid])
                  IN RebuildCalendar(SaveIndex(w1, uid, idx2), uid, idx2)
             ELSE Done(w1)

\* OnUserRemove that rebuilds from the list it loaded (idx), not from new_idx
OnUserRemoveRebuildsOld(w) ==
  LET gid == w.t.ev.guild_id
      eid == w.t.ev.id
      uid == w.t.user
  IN IF uid = NoUser \/ eid = NoEvent.id THEN Done(w)
     ELSE LET w1      == EnsureFiles(w, uid)
              idx     == LoadIndex(w1, uid)
              new_idx == SelectRecs(idx, {r \in Range(idx) : Matches(r, gid, eid)}, 1)
          IN IF new_idx # idx
             THEN RebuildCalendar(SaveIndex(w1, uid, new_idx), uid, idx)
             ELSE Done(w1)

OnUserRemove(w) ==
  LET gid == w.t.ev.guild_id
      eid == w.t.ev.id
      uid == w.t.user
  IN IF uid = NoUser \/ eid = NoEvent.id THEN Done(w)
     ELSE LET w1      == EnsureFiles(w, uid)
              idx     == LoadIndex(w1, uid)
              new_idx == SelectRecs(idx, {r \in Range(idx) : Matches(r, gid, eid)}, 1)
          IN IF new_idx # idx
             THEN RebuildCalendar(SaveIndex(w1, uid, new_idx), uid, new_idx)
             ELSE Done(w1)

\* OnCreate that saves the index and forgets to rebuild the feed
OnCreateNoRebuild(w) ==
  LET gid == w.t.ev.guild_id
      eid == w.t.ev.id
      uid == w.t.user
  IN IF uid = NoUser \/ eid = NoEvent.id THEN Done(w)
     ELSE LET w1  == EnsureFiles(w, uid)
              idx == LoadIndex(w1, uid)
          IN IF ~Tracked(idx, gid, eid)
             THEN Done(SaveIndex(w1, uid, Append(idx, [guild_id |-> gid, id |-> eid])))
             ELSE Done(w1)

\* OnCreate that tests only the event id of the last record
OnCreateChecksLast(w) ==
  LET gid == w.t.ev.guild_id
      eid == w.t.ev.id
      uid == w.t.user
  IN IF uid = NoUser \/ eid = NoEvent.id THEN Done(w)
     ELSE LET w1  == EnsureFiles(w, uid)
              idx == LoadIndex(w1, uid)
          IN IF idx = <<>> \/ ~Matches(idx[Len(idx)], gid, eid)
             THEN LET idx2 == Append(idx, [guild_id |-> gid, id |-> eid])
                  IN RebuildCalendar(SaveIndex(w1, uid, idx2), uid, idx2)
             ELSE Done(w1)

\* on_scheduled_event_create once the creator is known (uid = NoUser: unresolved)
OnCreate(w) ==
  LET gid == w.t.ev.guild_id
      eid == w.t.ev.id
      uid == w.t.user
  IN IF uid = NoUser \/ eid = NoEvent.id THEN Done(w)
     ELSE LET w1  == EnsureFiles(w, uid)
              idx == LoadIndex(w1, uid)
          IN IF ~Tracked(idx, gid, eid)
             THEN LET idx2 == Append(idx, [guild_id |-> gid, id |-> eid])
                  IN RebuildCalendar(SaveIndex(w1, uid, idx2), uid, idx2)
             ELSE Done(w1)

RECURSIVE UpdateLoopAll(_)
\* UpdateLoop without the `if any(...)` test: every user's feed is rebuilt
UpdateLoopAll(w) ==
  IF w.t.todo = <<>> THEN Done(w)
  ELSE LET uid == IntOfStem(Head(w.t.todo).stem)
           w0  == [w EXCEPT !.t.todo = Tail(@)]
       IN IF uid = ValueError THEN UpdateLoopAll(w0)
          ELSE LET w1  == EnsureFiles(w0, uid)
                   idx == LoadIndex(w1, uid)
                   w2  == RebuildCalendar(w1, uid, idx)
               IN IF w2.t.pc = "fetch" THEN w2 ELSE UpdateLoopAll(w2)

RECURSIVE UpdateLoop(_)
\* on_scheduled_event_update: the loop over DATA_DIR.glob("*.json"), up to an await
UpdateLoop(w) ==
  IF w.t.todo = <<>> THEN Done(w)
  ELSE LET uid == IntOfStem(Head(w.t.todo).stem)
           w0  == [w EXCEPT !.t.todo = Tail(@)]
       IN IF uid = ValueError THEN UpdateLoop(w0)
          ELSE LET w1  == EnsureFiles(w0, uid)
                   idx == LoadIndex(w1, uid)
               IN IF Tracked(idx, w.t.ev.guild_id, w.t.ev.id)
                  THEN LET w2 == RebuildCalendar(w1, uid, idx)
                       IN IF w2.t.pc = "fetch" THEN w2 ELSE UpdateLoop(w2)
                  ELSE UpdateLoop(w1)

OnUpdate(w) == IF w.t.ev.id = NoEvent.id THEN Done(w) ELSE UpdateLoop(w)

RECURSIVE DeleteLoopFirstHit(_)
\* DeleteLoop that returns after the first user it removed the event from
DeleteLoopFirstHit(w) ==
  IF w.t.todo = <<>> THEN Done(w)
  ELSE LET uid == IntOfStem(Head(w.t.todo).stem)
           w0  == [w EXCEPT !.t.todo = Tail(@)]
       IN IF uid = ValueError THEN DeleteLoopFirstHit(w0)
          ELSE LET w1      == EnsureFiles(w0, uid)
                   idx     == LoadIndex(w1, uid)
                   new_idx == SelectRecs(idx, {r \in Range(idx) :
                                 Matches(r, w.t.ev.guild_id, w.t.ev.id)}, 1)
               IN IF new_idx # idx
                  THEN LET w2 == RebuildCalendar(SaveIndex([w1 EXCEPT !.t.todo = <<>>],
                                                           uid, new_idx), uid, new_idx)
                       IN IF w2.t.pc = "fetch" THEN w2 ELSE DeleteLoopFirstHit(w2)
                  ELSE DeleteLoopFirstHit(w1)

RECURSIVE DeleteLoop(_)
\* on_scheduled_event_delete: the loop over DATA_DIR.glob("*.json"), up to an await
DeleteLoop(w) ==
  IF w.t.todo = <<>> THEN Done(w)
  ELSE LET uid == IntOfStem(Head(w.t.todo).stem)
           w0  == [w EXCEPT !.t.todo = Tail(@)]
       IN IF uid = ValueError THEN DeleteLoop(w0)
          ELSE LET w1      == EnsureFiles(w0, uid)
                   idx     == LoadIndex(w1, uid)
                   new_idx == SelectRecs(idx, {r \in Range(idx) :
                                 Matches(r, w.t.ev.guild_id, w.t.ev.id)}, 1)
               IN IF new_idx # idx
                  THEN LET w2 == RebuildCalendar(SaveIndex(w1, uid, new_idx), uid, new_idx)
                       IN IF w2.t.pc = "fetch" THEN w2 ELSE DeleteLoop(w2)
                  ELSE DeleteLoop(w1)

OnDelete(w) == IF w.t.ev.id = NoEvent.id THEN Done(w) ELSE DeleteLoop(w)

RECURSIVE PollLoopAll(_)
\* PollLoop without the `if index:` test
PollLoopAll(w) ==
  IF w.t.todo = <<>> THEN Done(w)
  ELSE LET uid == IntOfStem(Head(w.t.todo).stem)
           w0  == [w EXCEPT !.t.todo = Tail(@)]
       IN IF uid = ValueError THEN PollLoopAll(w0)
          ELSE LET w2 == RebuildCalendar(w0, uid, LoadIndex(w0, uid))
               IN IF w2.t.pc = "fetch" THEN w2 ELSE PollLoopAll(w2)

RECURSIVE PollLoop(_)
\* poll_new_events: one pass of the `for json_idx in DATA_DIR.glob("*.json")` loop
PollLoop(w) ==
  IF w.t.todo = <<>> THEN Done(w)
  ELSE LET uid == IntOfStem(Head(w.t.todo).stem)
           w0  == [w EXCEPT !.t.todo = Tail(@)]
       IN IF uid = ValueError THEN PollLoop(w0)
          ELSE LET index == LoadIndex(w0, uid)
               IN IF index # <<>>
                  THEN LET w2 == RebuildCalendar(w0, uid, index)
                       IN IF w2.t.pc = "fetch" THEN w2 ELSE PollLoop(w2)
                  ELSE PollLoop(w0)

RECURSIVE SyncUsersNoSave(_)
\* SyncUsers that rebuilds from the extended list without saving it first
SyncUsersNoSave(w) ==
  IF w.t.subs = <<>> THEN [w EXCEPT !.t.pc = "next_ev"]
  ELSE LET uid == Head(w.t.subs)
           gid == w.t.ev.guild_id
           eid == w.t.ev.id
           w1  == EnsureFiles([w EXCEPT !.t.subs = Tail(@)], uid)
           idx == LoadIndex(w1, uid)
       IN IF Tracked(idx, gid, eid) THEN SyncUsersNoSave(w1)
          ELSE LET idx2 == Append(idx, [guild_id |-> gid, id |-> eid])
                   w2   == RebuildCalendar(w1, uid, idx2)
               IN IF w2.t.pc = "fetch" THEN w2 ELSE SyncUsersNoSave(w2)

RECURSIVE SyncUsers(_)
\* sync_existing_events: the body of `async for user in ev.subscribers()`
SyncUsers(w) ==
  IF w.t.subs = <<>> THEN [w EXCEPT !.t.pc = "next_ev"]
  ELSE LET uid == Head(w.t.subs)
           gid == w.t.ev.guild_id
           eid == w.t.ev.id
           w1  == EnsureFiles([w EXCEPT !.t.subs = Tail(@)], uid)
           idx == LoadIndex(w1, uid)
       IN IF Tracked(idx, gid, eid) THEN SyncUsers(w1)
          ELSE LET idx2 == Append(idx, [guild_id |-> gid, id |-> eid])
                   w2   == RebuildCalendar(SaveIndex(w1, uid, idx2), uid, idx2)
               IN IF w2.t.pc = "fetch" THEN w2 ELSE SyncUsers(w2)

\* `for ev in events`: the next event's subscribers are awaited, or the guild is done
SyncNextEvent(w) ==
  IF w.t.evs = <<>> THEN [w EXCEPT !.t.pc = "nap"]
  ELSE [w EXCEPT !.t.ev = Head(w.t.evs), !.t.evs = Tail(@), !.t.pc = "subs"]

SyncSettle(w) ==
  LET w1 == SyncUsers(w) IN IF w1.t.pc = "next_ev" THEN SyncNextEvent(w1) ELSE w1

\* the code that follows `await rebuild_calendar(...)` in the caller
AfterRebuild(w) ==
  CASE w.t.kind \in {"add", "remove", "create", "rebuild"} -> Done(w)
    [] w.t.kind = "update" -> UpdateLoop(w)
    [] w.t.kind = "delete" -> DeleteLoop(w)
    [] w.t.kind = "poll"   -> PollLoop(w)
    [] w.t.kind = "sync"   -> SyncSettle(w)

\* a handler that ran to its end without suspending is done; otherwise it waits
Settle(w) == IF w.t.pc = "ret" THEN AfterRebuild(w) ELSE w

\* ------------------------------------------------------------ bot_commands
\* BASE_URL when the environment sets none
DefaultBaseUrl == Chars("http://localhost")

\* the coroutine begins to run
Ran(w, k) == [w EXCEPT !.spawn.run[k] = @ + 1]

\* _rebuild_async(uid), up to its first await
RebuildAsync(w) ==
  LET idx == LoadIndex(w, w.t.user)
  IN IF idx # <<>> THEN RebuildCalendar(w, w.t.user, idx) ELSE Done(w)

\* an exception that no `except` clause of the handler names ends the coroutine
Raise(w, exc) == Done([w EXCEPT !.t.exc = exc])

\* mycalendar once ctx.defer has returned: ensure_files, feed_url, then the
\* fetch of the user to DM is awaited
AfterDefer(w) ==
  [EnsureFiles(w, w.t.user) EXCEPT !.t.link = FeedUrl(DefaultBaseUrl, w.t.user),
                                   !.t.pc = "dm_user"]

\* msg is chosen from dm_ok and ctx.followup.send(msg) is awaited
Followup(w, dm_ok) == [w EXCEPT !.t.dm_ok = dm_ok, !.t.pc = "followup"]

\* bot.fetch_user returned a user, returned None (user.send is an AttributeError),
\* or raised NotFound / HTTPException
AfterDmUser(w, o) ==
  CASE o = "user"          -> [w EXCEPT !.t.pc = "dm_send"]
    [] o = "None"          -> Followup(w, FALSE)
    [] o = "HTTPException" -> Raise(w, o)

\* user.send delivered the DM, raised Forbidden, or raised another HTTPException
AfterDmSend(w, o) ==
  CASE o = "ok"            -> Followup([w EXCEPT !.t.dm = o], TRUE)
    [] o = "Forbidden"     -> Followup([w EXCEPT !.t.dm = o], FALSE)
    [] o = "HTTPException" -> Raise([w EXCEPT !.t.dm = o], o)

\* the follow-up is sent; the rebuild is handed to asyncio.create_task
AfterFollowup(w) ==
  Done(CreateTask([w EXCEPT !.t.reply = IF w.t.dm_ok THEN "check_dms" ELSE "dm_failed"],
                  <<"_rebuild_async", w.t.user>>))

\* no guild has reminders stored
NoAlerts == [g \in Guilds |-> <<>>]

\* save_guild_alerts(guild_id, alert1, alert2): the guild's reminders are replaced
\* by the one or two values passed (alert2 may be None)
SaveGuildAlerts(store, guild_id, alerts) == [store EXCEPT ![guild_id] = alerts]

SetAlertsUnsorted(store, guild_id, alert1, alert2) ==
  IF alert1 <= 0 \/ (alert2 # <<>> /\ alert2[1] <= 0)
  THEN [store |-> store, reply |-> <<"Times must be positive minutes.">>]
  ELSE [store |-> SaveGuildAlerts(store, guild_id, <<alert1>> \o alert2),
        reply |-> <<"Default reminders set">> \o <<alert1>> \o alert2]

\* setalerts(ctx, alert1, alert2): alert2 is <<>> for None, <<n>> for a value.
\* The outcome: the store afterwards and the reply sent with ctx.respond.
SetAlerts(store, guild_id, alert1, alert2) ==
  IF alert1 <= 0 \/ (alert2 # <<>> /\ alert2[1] <= 0)
  THEN [store |-> store, reply |-> <<"Times must be positive minutes.">>]
  ELSE LET alerts == Sorted(<<alert1>> \o alert2)
       IN [store |-> SaveGuildAlerts(store, guild_id, alerts),
           reply |-> <<"Default reminders set">> \o alerts]

\* ----------------------------------------------------------------- actions
StartAdd(t, e, u, seq) ==
  /\ CanStart(t, seq)
  /\ e \in Events => evState[e] = "live"
  /\ Commit(t, Settle(OnUserAdd(Fresh(t, "add", e, u, seq))))
  /\ UNCHANGED <<evState, call, guildAlerts>>

StartRemove(t, e, u, seq) ==
  /\ CanStart(t, seq)
  /\ e \in Events => evState[e] = "live"
  /\ Commit(t, Settle(OnUserRemove(Fresh(t, "remove", e, u, seq))))
  /\ UNCHANGED <<evState, call, guildAlerts>>

\* creator: event.creator is set ("cached"), only creator_id is ("fetch"), neither
StartCreate(t, e, c, how, seq) ==
  /\ CanStart(t, seq)
  /\ e \in Events => evState[e] = "live"
  /\ LET w == Fresh(t, "create", e, c, seq)
     IN CASE how = "cached" -> Commit(t, Settle(OnCreate(w)))
          [] how = "fetch"  -> Commit(t, [w EXCEPT !.t.pc = "fetch_user"])
          [] how = "none"   -> Commit(t, Settle(OnCreate([w EXCEPT !.t.user = NoUser])))
  /\ UNCHANGED <<evState, call, guildAlerts>>

\* `await bot.fetch_user(event.creator_id)` returns the user, or raises
FetchUserReturn(t, ok) ==
  /\ tasks[t].pc = "fetch_user"
  /\ Commit(t, IF ok THEN Settle(OnCreate(World(t)))
               ELSE Done([World(t) EXCEPT !.t.user = NoUser]))
  /\ UNCHANGED <<evState, call, guildAlerts>>

\* glob yields the directory's entries in no particular order
StartUpdate(t, e, seq) ==
  /\ CanStart(t, seq)
  /\ e \in Events => evState[e] = "live"
  /\ \E order \in Perms(GlobJson(files)) :
        Commit(t, Settle(OnUpdate([Fresh(t, "update", e, NoUser, seq) EXCEPT !.t.todo = order])))
  /\ UNCHANGED <<evState, call, guildAlerts>>

StartDelete(t, e, seq) ==
  /\ CanStart(t, seq)
  /\ e \in Events => evState[e] = "deleted"
  /\ \E order \in Perms(GlobJson(files)) :
        Commit(t, Settle(OnDelete([Fresh(t, "delete", e, NoUser, seq) EXCEPT !.t.todo = order])))
  /\ UNCHANGED <<evState, call, guildAlerts>>

\* the poller wakes from asyncio.sleep and walks DATA_DIR once
StartPoll(t, seq) ==
  /\ CanStart(t, seq)
  /\ \A s \in Tasks : tasks[s].kind # "poll"
  /\ \E order \in Perms(GlobJson(files)) :
        Commit(t, Settle(PollLoop([Fresh(t, "poll", NoEvent, NoUser, seq) EXCEPT !.t.todo = order])))
  /\ UNCHANGED <<evState, call, guildAlerts>>

\* sync_existing_events is created; it awaits the first guild's event list
NewSync(t, seq) ==
  [Fresh(t, "sync", NoEvent, NoUser, seq) EXCEPT !.t.guilds = SortedSeq(Guilds), !.t.pc = "list"]

StartSync(t, seq) ==
  /\ CanStart(t, seq)
  /\ \A s \in Tasks : tasks[s].kind # "sync"
  /\ Commit(t, NewSync(t, seq))
  /\ UNCHANGED <<evState, call, guildAlerts>>

\* `await guild.fetch_scheduled_events()` returns the guild's events
SyncEvents(t) ==
  /\ tasks[t].pc = "list"
  /\ LET g   == Head(tasks[t].guilds)
         ks  == {k \in 1..MaxEvent : Rec(k).guild_id = g /\ evState[Rec(k)] = "live"}
         sk  == SortedSeq(ks)
         evs == [i \in 1..Len(sk) |-> Rec(sk[i])]
     IN Commit(t, SyncNextEvent([World(t) EXCEPT !.t.evs = evs]))
  /\ UNCHANGED <<evState, call, guildAlerts>>

\* the first page of ev.subscribers() arrives (S: its users), or NotFound is raised
SyncSubscribers(t, S) ==
  /\ tasks[t].pc = "subs"
  /\ LET w == World(t)
     IN IF evState[w.t.ev] = "deleted"
        THEN /\ S = {}
             /\ Commit(t, SyncNextEvent(Note(w, "gone", w.t.ev)))
        ELSE LET w1 == IF w.t.track
                       THEN [w EXCEPT !.t.log.seen = @ \cup {<<w.t.ev, u>> : u \in S}]
                       ELSE w
             IN Commit(t, SyncSettle([w1 EXCEPT !.t.subs = SortedSeq(S)]))
  /\ UNCHANGED <<evState, call, guildAlerts>>

\* `await asyncio.sleep(1)` after a guild is over
SyncNap(t) ==
  /\ tasks[t].pc = "nap"
  /\ LET w == [World(t) EXCEPT !.t.guilds = Tail(@)]
     IN Commit(t, IF w.t.guilds = <<>> THEN Done(w) ELSE [w EXCEPT !.t.pc = "list"])
  /\ UNCHANGED <<evState, call, guildAlerts>>

\* the awaited fetch of idx[pos] returns and the coroutine runs to its next await
FetchReturn(t, o) ==
  /\ tasks[t].pc = "fetch"
  /\ o \in FetchOutcomes(evState[tasks[t].idx[tasks[t].pos]])
  /\ LET w1 == FetchStep(World(t), o)
     IN Commit(t, IF w1.t.pos > Len(w1.t.idx) THEN Settle(RebuildExit(w1)) ELSE w1)
  /\ UNCHANGED <<evState, call, guildAlerts>>

\* the coroutine object of a finished handler is dropped
Return(t) ==
  /\ tasks[t].pc = "done"
  /\ tasks' = [tasks EXCEPT ![t] = IdleTask]
  /\ UNCHANGED <<files, idxData, icsData, evState, raw, spawn, call, guildAlerts>>

\* a moderator deletes the scheduled event on Discord
DiscordDelete(e) ==
  /\ evState[e] = "live"
  /\ evState' = [evState EXCEPT ![e] = "deleted"]
  /\ UNCHANGED <<files, idxData, icsData, tasks, raw, spawn, call, guildAlerts>>

Init ==
  /\ files \in {{}, {StrayFile}}
  /\ idxData = [u \in Users |-> <<>>]
  /\ icsData = [u \in Users |-> {}]
  /\ evState = [e \in Events |-> "live"]
  /\ tasks = [t \in Tasks |-> IdleTask]
  /\ raw = [u \in Users |-> "list"]
  /\ spawn = NoSpawn
  /\ call = NoCall
  /\ guildAlerts = NoAlerts

Inputs == Events \cup {NoEvent}
Callers == Users \cup {NoUser}

\* the gateway dispatches a scheduled-event callback
Gateway(seq) ==
  \/ \E t \in Tasks, e \in Inputs, u \in Callers : StartAdd(t, e, u, seq)
  \/ \E t \in Tasks, e \in Inputs, u \in Callers : StartRemove(t, e, u, seq)
  \/ \E t \in Tasks, e \in Inputs, c \in Callers, how \in {"cached", "fetch", "none"} :
        StartCreate(t, e, c, how, seq)
  \/ \E t \in Tasks, e \in Inputs : StartUpdate(t, e, seq)
  \/ \E t \in Tasks, e \in Inputs : StartDelete(t, e, seq)

\* an awaited call of a suspended coroutine returns
Resume ==
  \/ \E t \in Tasks, ok \in BOOLEAN : FetchUserReturn(t, ok)
  \/ \E t \in Tasks, o \in {"ok", "error", "e404", "none"} : FetchReturn(t, o)
  \/ \E t \in Tasks : Return(t)

Poller(seq) == \E t \in Tasks : StartPoll(t, seq)

Sync(seq) ==
  \/ \E t \in Tasks : StartSync(t, seq)
  \/ \E t \in Tasks : SyncEvents(t)
  \/ \E t \in Tasks, S \in SUBSET Users : SyncSubscribers(t, S)
  \/ \E t \in Tasks : SyncNap(t)

Discord == \E e \in Events : DiscordDelete(e)

\* every coroutine of the bot, interleaved at its awaits
Next == Gateway(FALSE) \/ Poller(FALSE) \/ Sync(FALSE) \/ Resume \/ Discord
Spec == Init /\ [][Next]_vars

\* the handlers and the poller, one at a time
SeqNext == Gateway(TRUE) \/ Poller(TRUE) \/ Resume \/ Discord
SeqSpec == Init /\ [][SeqNext]_vars

\* the back-fill sync and the RSVP handlers, one at a time
SyncNext ==
  \/ \E t \in Tasks, e \in Events, u \in Users : StartAdd(t, e, u, TRUE)
  \/ \E t \in Tasks, e \in Events, u \in Users : StartRemove(t, e, u, TRUE)
  \/ Sync(TRUE)
  \/ \E t \in Tasks, o \in {"ok", "error", "e404", "none"} : FetchReturn(t, o)
  \/ \E t \in Tasks : Return(t)
  \/ Discord
SyncSpec == Init /\ [][SyncNext]_vars

\* the RSVP handlers of one user, the delete handler, the poller and their
\* rebuilds, interleaved
RaceNext ==
  \/ \E t \in Tasks, e \in Events : StartAdd(t, e, Min(Users), FALSE)
  \/ \E t \in Tasks, e \in Events : StartRemove(t, e, Min(Users), FALSE)
  \/ \E t \in Tasks, e \in Events : StartDelete(t, e, FALSE)
  \/ \E t \in Tasks : StartPoll(t, FALSE)
  \/ \E t \in Tasks, o \in {"ok", "error", "e404", "none"} : FetchReturn(t, o)
  \/ \E t \in Tasks : Return(t)
  \/ Discord

PollerWakes == \E t \in Tasks : StartPoll(t, FALSE)
FetchReturns(t) == \E o \in {"ok", "error", "e404", "none"} : FetchReturn(t, o)

\* every awaited fetch returns, every finished coroutine is dropped, and the
\* poller's timer fires again and again
Fairness ==
  /\ \A t \in Tasks : WF_vars(FetchReturns(t))
  /\ \A t \in Tasks : WF_vars(Return(t))
  /\ SF_vars(PollerWakes)

\* a fresh DATA_DIR
RaceInit == Init /\ files = {}

FairSpec == RaceInit /\ [][RaceNext]_vars /\ Fairness

\* every coroutine that writes the index of one user, interleaved at its awaits:
\* the create, RSVP and delete handlers, the back-fill sync and the poller
MixNext ==
  \/ \E t \in Tasks, e \in Events : StartAdd(t, e, Min(Users), FALSE)
  \/ \E t \in Tasks, e \in Events : StartRemove(t, e, Min(Users), FALSE)
  \/ \E t \in Tasks, e \in Events, how \in {"cached", "fetch"} :
        StartCreate(t, e, Min(Users), how, FALSE)
  \/ \E t \in Tasks, e \in Events : StartDelete(t, e, FALSE)
  \/ \E t \in Tasks : StartPoll(t, FALSE)
  \/ \E t \in Tasks : StartSync(t, FALSE)
  \/ \E t \in Tasks : SyncEvents(t)
  \/ \E t \in Tasks, S \in SUBSET {Min(Users)} : SyncSubscribers(t, S)
  \/ \E t \in Tasks : SyncNap(t)
  \/ \E t \in Tasks, ok \in BOOLEAN : FetchUserReturn(t, ok)
  \/ \E t \in Tasks, o \in {"ok", "error", "e404", "none"} : FetchReturn(t, o)
  \/ \E t \in Tasks : Return(t)
  \/ Discord

MixSpec == RaceInit /\ [][MixNext]_vars

\* --------------------------------------------- on_ready, /mycalendar and their tasks
MaxSpawn == 2

\* the gateway fires on_ready: three coroutines are handed to asyncio.create_task
OnReady ==
  /\ spawn.made[<<"sync_existing_events", NoUser>>] < MaxSpawn
  /\ spawn' = CreateTask(CreateTask(CreateTask(World(1), <<"run_http", NoUser>>),
                                     <<"poll_new_events", NoUser>>),
                          <<"sync_existing_events", NoUser>>).spawn
  /\ UNCHANGED <<files, idxData, icsData, evState, tasks, raw, call, guildAlerts>>

Pending(k) == spawn.made[k] > spawn.run[k]

\* a coroutine that on_ready created begins: run_http binds the port, the poller
\* goes into its first sleep
BeginLoop(k) ==
  /\ Pending(k)
  /\ spawn' = Ran(World(1), k).spawn
  /\ UNCHANGED <<files, idxData, icsData, evState, tasks, raw, call, guildAlerts>>

\* a poller that is running wakes for a cycle
PollCycle(t, seq) ==
  /\ spawn.run[<<"poll_new_events", NoUser>>] > 0
  /\ StartPoll(t, seq)

BeginSync(t, seq) ==
  /\ Pending(<<"sync_existing_events", NoUser>>)
  /\ CanStart(t, seq)
  /\ Commit(t, Ran(NewSync(t, seq), <<"sync_existing_events", NoUser>>))
  /\ UNCHANGED <<evState, call, guildAlerts>>

BeginRebuild(t, u, seq) ==
  /\ Pending(<<"_rebuild_async", u>>)
  /\ CanStart(t, seq)
  /\ Commit(t, Settle(RebuildAsync(Ran(Fresh(t, "rebuild", NoEvent, u, seq),
                                        <<"_rebuild_async", u>>))))
  /\ UNCHANGED <<evState, call, guildAlerts>>

\* /mycalendar is invoked by user u; ctx.defer is awaited
StartMyCalendar(t, u, seq) ==
  /\ CanStart(t, seq)
  /\ spawn.made[<<"_rebuild_async", u>>] < MaxSpawn
  /\ Commit(t, [Fresh(t, "mycalendar", NoEvent, u, seq) EXCEPT !.t.pc = "defer"])
  /\ UNCHANGED <<evState, call, guildAlerts>>

DeferReturn(t) ==
  /\ tasks[t].pc = "defer"
  /\ Commit(t, AfterDefer(World(t)))
  /\ UNCHANGED <<evState, call, guildAlerts>>

DmUserReturn(t, o) ==
  /\ tasks[t].pc = "dm_user"
  /\ Commit(t, AfterDmUser(World(t), o))
  /\ UNCHANGED <<evState, call, guildAlerts>>

DmSendReturn(t, o) ==
  /\ tasks[t].pc = "dm_send"
  /\ Commit(t, AfterDmSend(World(t), o))
  /\ UNCHANGED <<evState, call, guildAlerts>>

FollowupReturn(t) ==
  /\ tasks[t].pc = "followup"
  /\ Commit(t, AfterFollowup(World(t)))
  /\ UNCHANGED <<evState, call, guildAlerts>>

\* the bot's start: on_ready and the coroutines it creates, one at a time
BootNext ==
  \/ OnReady
  \/ \E k \in {<<"run_http", NoUser>>, <<"poll_new_events", NoUser>>} : BeginLoop(k)
  \/ \E t \in Tasks : PollCycle(t, TRUE)
  \/ \E t \in Tasks : BeginSync(t, TRUE)
  \/ \E t \in Tasks : SyncEvents(t)
  \/ \E t \in Tasks, S \in SUBSET Users : SyncSubscribers(t, S)
  \/ \E t \in Tasks : SyncNap(t)
  \/ \E t \in Tasks, o \in {"ok", "error", "e404", "none"} : FetchReturn(t, o)
  \/ \E t \in Tasks : Return(t)

BootSpec == RaceInit /\ [][BootNext]_vars

\* /mycalendar and its background rebuild among subscriptions, one coroutine at a time
CmdNext ==
  \/ \E t \in Tasks, e \in Events, u \in Users : StartAdd(t, e, u, TRUE)
  \/ \E t \in Tasks, u \in Users : StartMyCalendar(t, u, TRUE)
  \/ \E t \in Tasks : DeferReturn(t)
  \/ \E t \in Tasks, o \in {"user", "None", "HTTPException"} : DmUserReturn(t, o)
  \/ \E t \in Tasks, o \in {"ok", "Forbidden", "HTTPException"} : DmSendReturn(t, o)
  \/ \E t \in Tasks : FollowupReturn(t)
  \/ \E t \in Tasks, u \in Users : BeginRebuild(t, u, TRUE)
  \/ \E t \in Tasks, o \in {"ok", "error", "e404", "none"} : FetchReturn(t, o)
  \/ \E t \in Tasks : Return(t)

CmdSpec == RaceInit /\ [][CmdNext]_vars

\* ------------------------------------------------- file_helpers, called directly
\* DATA_DIR as a call finds it
Disk == [files |-> files, idxData |-> idxData, icsData |-> icsData, raw |-> raw]

\* the lists an index file of DATA_DIR may hold
StoredLists == {<<>>, <<Rec(1)>>, <<Rec(1), Rec(MaxEvent)>>}
\* the feeds an .ics file of DATA_DIR may hold
StoredFeeds == {{}, {EventToIcs(Fetched(Rec(1)), Rec(1).guild_id)}}

\* no coroutine runs and none was created
Quiet ==
  /\ guildAlerts = NoAlerts
  /\ evState = [e \in Events |-> "live"]
  /\ tasks = [t \in Tasks |-> IdleTask]
  /\ spawn = NoSpawn

\* a fresh DATA_DIR
EmptyDir ==
  /\ files = {}
  /\ idxData = [u \in Users |-> <<>>]
  /\ icsData = [u \in Users |-> {}]
  /\ raw = [u \in Users |-> "list"]

\* any DATA_DIR: each user's index and feed missing or present, the index text of
\* any kind (a missing file has no content: its entries are held at a default)
FilesInit ==
  /\ Quiet
  /\ call = NoCall
  /\ files \in SUBSET ({IdxPath(u) : u \in Users} \cup {IcsPath(u) : u \in Users})
  /\ raw \in [Users -> RawKinds]
  /\ idxData \in [Users -> StoredLists]
  /\ icsData \in [Users -> StoredFeeds]
  /\ \A u \in Users :
        /\ IdxPath(u) \notin files => raw[u] = "list"
        /\ (IdxPath(u) \notin files \/ raw[u] # "list") => idxData[u] = <<>>
        /\ IcsPath(u) \notin files => icsData[u] = {}

EnsureFilesCall(uid) ==
  /\ Commit(1, EnsureFiles(World(1), uid))
  /\ call' = [fn |-> "ensure_files", uid |-> uid, pre |-> Disk, out |-> [exc |-> NoExc, val |-> <<>>]]
  /\ UNCHANGED <<evState, guildAlerts>>

LoadIndexCall(uid) ==
  /\ call' = [fn |-> "load_index", uid |-> uid, pre |-> Disk, out |-> LoadOutcome(World(1), uid)]
  /\ UNCHANGED <<files, idxData, icsData, evState, tasks, raw, spawn, guildAlerts>>

SaveIndexCall(uid, idx) ==
  /\ Commit(1, SaveIndex(World(1), uid, idx))
  /\ call' = [fn |-> "save_index", uid |-> uid, pre |-> Disk, out |-> [exc |-> NoExc, val |-> idx]]
  /\ UNCHANGED <<evState, guildAlerts>>

FilesNext ==
  \/ \E uid \in Users : EnsureFilesCall(uid)
  \/ \E uid \in Users : LoadIndexCall(uid)
  \/ \E uid \in Users, idx \in StoredLists : SaveIndexCall(uid, idx)

FilesSpec == FilesInit /\ [][FilesNext]_vars

\* ------------------------------------------------------- feed_url, called directly
\* config.py has been imported with some BASE_URL in the environment
UrlInit ==
  /\ Quiet
  /\ EmptyDir
  /\ \E base \in BaseUrls : call = [fn |-> "config", BASE_URL |-> base]

FeedUrlCall(uid) ==
  /\ call.fn = "config"
  /\ call' = [fn |-> "feed_url", BASE_URL |-> call.BASE_URL, uid |-> uid,
              out |-> FeedUrl(call.BASE_URL, uid)]
  /\ UNCHANGED <<files, idxData, icsData, evState, tasks, raw, spawn, guildAlerts>>

UrlNext == \E uid \in Users : FeedUrlCall(uid)

UrlSpec == UrlInit /\ [][UrlNext]_vars

\* --------------------------------------------------- event_to_ics, called directly
MaxDigits == 4
MaxRules == 3
MaxTick == 4

DigitRun(k) == [i \in 1..k |-> "1"]
\* a numeral in three parts: sign, integer digits (or a letter), fraction
Numerals ==
  [sign : {<<>>, <<"-">>},
   int  : {DigitRun(k) : k \in 0..MaxDigits} \cup {<<"x">>},
   frac : {<<>>, <<".">>, <<".", "5">>}]
Spell(n) == n.sign \o n.int \o n.frac

\* location strings: two numerals or words around a separator, with blanks
LocParts ==
  [lead : {<<>>, <<" ">>}, n1 : Numerals, sep : {<<>>, <<",">>, <<",", " ">>, <<";">>},
   n2 : Numerals, trail : {<<>>, <<" ">>, <<"x">>}]
LocOf(p) == p.lead \o Spell(p.n1) \o p.sep \o Spell(p.n2) \o p.trail
NoParts ==
  [lead |-> <<>>, n1 |-> [sign |-> <<>>, int |-> <<>>, frac |-> <<>>], sep |-> <<>>,
   n2 |-> [sign |-> <<>>, int |-> <<>>, frac |-> <<>>], trail |-> <<>>]

\* entity_metadata with a location, a location_url, a channel (cached or not), or none
Metas ==
  {NoMeta} \cup [some : {TRUE}, location : {<<>>, <<"x">>}, location_url : {<<>>, <<"u">>},
                 channel_id : {0, 7}, channel_name : {<<>>, <<"g">>}]
LocMeta(loc) == [NoMeta EXCEPT !.some = TRUE, !.location = loc]

\* snowflakes of one and of two digits
IdPool == {1, 2, 11, 12}
Ev0 == Fetched(Rec(1))

\* the events whose name, location and ids vary
UidEvents ==
  {[Ev0 EXCEPT !.id = i, !.name = n, !.entity_metadata = m] :
      i \in IdPool, n \in {<<"e">>, <<"f">>}, m \in {NoMeta, LocMeta(<<"x">>)}}

\* the attribute, if any, in which the library reports an event's last edit
EditAttrs == {"none", "updated_at", "last_updated_at", "edited_timestamp"}
Stamped(ev, attr, t) ==
  CASE attr = "none"             -> ev
    [] attr = "updated_at"       -> [ev EXCEPT !.updated_at = t]
    [] attr = "last_updated_at"  -> [ev EXCEPT !.last_updated_at = t]
    [] attr = "edited_timestamp" -> [ev EXCEPT !.edited_timestamp = t]

\* two fetches: fam says what varies; a and b are the events fetched, with the
\* guild they are converted for; edited: b is a after an edit on Discord
IcsCalls ==
  {[fam |-> "loc", a |-> [ev |-> [Ev0 EXCEPT !.entity_metadata = LocMeta(LocOf(p))], guild_id |-> 1],
    b |-> [ev |-> Ev0, guild_id |-> 1], edited |-> FALSE, parts |-> p] : p \in LocParts}
  \cup
  {[fam |-> "meta", a |-> [ev |-> [Ev0 EXCEPT !.entity_metadata = m, !.description = d], guild_id |-> 1],
    b |-> [ev |-> Ev0, guild_id |-> 1], edited |-> FALSE, parts |-> NoParts] :
      m \in Metas, d \in {<<>>, <<" ", "d", " ">>}}
  \cup
  {[fam |-> "rec", a |-> [ev |-> [Ev0 EXCEPT !.recurrence = r, !.updated_at = t], guild_id |-> 1],
    b |-> [ev |-> Ev0, guild_id |-> 1], edited |-> FALSE, parts |-> NoParts] :
      r \in StringsUpTo({<<"W">>, <<"D">>}, MaxRules), t \in {NoTime, MaxTick}}
  \cup
  {[fam |-> "uid", a |-> [ev |-> e1, guild_id |-> g1], b |-> [ev |-> e2, guild_id |-> g2],
    edited |-> FALSE, parts |-> NoParts] :
      e1 \in UidEvents, e2 \in UidEvents, g1 \in IdPool, g2 \in {1, 12}}
  \cup
  {[fam |-> "seq", a |-> [ev |-> Stamped(Ev0, attr, t1), guild_id |-> 1],
    b |-> [ev |-> IF t2 > t1 THEN Stamped([Ev0 EXCEPT !.name = <<"f">>], attr, t2)
                  ELSE Stamped(Ev0, attr, t1),
           guild_id |-> 1],
    edited |-> (t2 > t1), parts |-> NoParts] :
      attr \in EditAttrs, t1 \in 0..MaxTick, t2 \in 0..(MaxTick + 1)}

IcsInit ==
  /\ Quiet
  /\ EmptyDir
  /\ \E c \in IcsCalls :
        call = [fn |-> "fetched", fam |-> c.fam, a |-> c.a, b |-> c.b, edited |-> c.edited,
                parts |-> c.parts, out |-> NewEvent, out2 |-> NewEvent]

EventToIcsCall ==
  /\ call.fn = "fetched"
  /\ call' = [call EXCEPT !.fn = "event_to_ics",
                          !.out = EventToIcs(call.a.ev, call.a.guild_id),
                          !.out2 = EventToIcs(call.b.ev, call.b.guild_id)]
  /\ UNCHANGED <<files, idxData, icsData, evState, tasks, raw, spawn, guildAlerts>>

IcsNext == EventToIcsCall

IcsSpec == IcsInit /\ [][IcsNext]_vars

\* ----------------------------------------------------------- the feed requested
MaxIdLen == 2
\* the ids a client may put in /cal/<id>.ics
RequestIds == StringsUpTo({"0", "1", "x"}, MaxIdLen) \ {<<>>}

\* GET /cal/<id>.ics
HandleFeedCall(id) ==
  /\ call' = [fn |-> "handle_feed", id |-> id, files |-> files,
              status |-> HandleFeed(files, id)]
  /\ UNCHANGED <<files, idxData, icsData, evState, tasks, raw, spawn, guildAlerts>>

\* /mycalendar and the RSVPs of one user with their rebuilds, interleaved, while
\* clients request feeds
FeedNext ==
  \/ \E t \in Tasks : StartMyCalendar(t, Min(Users), FALSE)
  \/ \E t \in Tasks : DeferReturn(t)
  \/ \E t \in Tasks, o \in {"user", "None", "HTTPException"} : DmUserReturn(t, o)
  \/ \E t \in Tasks, o \in {"ok", "Forbidden", "HTTPException"} : DmSendReturn(t, o)
  \/ \E t \in Tasks : FollowupReturn(t)
  \/ \E t \in Tasks : BeginRebuild(t, Min(Users), FALSE)
  \/ \E t \in Tasks, e \in Events : StartAdd(t, e, Min(Users), FALSE)
  \/ \E t \in Tasks, o \in {"ok", "e404"} : FetchReturn(t, o)
  \/ \E t \in Tasks : Return(t)
  \/ \E id \in RequestIds : HandleFeedCall(id)

FeedSpec == RaceInit /\ [][FeedNext]_vars

\* --------------------------------------------------------- /setalerts invoked
MaxAlert == 2
\* what Discord passes for an int option: negative, zero or positive
AlertValues == (0 - 1)..MaxAlert

SetAlertsCall(g, alert1, alert2) ==
  /\ guildAlerts' = SetAlerts(guildAlerts, g, alert1, alert2).store
  /\ call' = [fn |-> "setalerts", guild_id |-> g, alert1 |-> alert1, alert2 |-> alert2,
              pre |-> guildAlerts, reply |-> SetAlerts(guildAlerts, g, alert1, alert2).reply]
  /\ UNCHANGED <<files, idxData, icsData, evState, tasks, raw, spawn>>

AlertsInit == Quiet /\ EmptyDir /\ call = NoCall

AlertsNext ==
  \E g \in Guilds, alert1 \in AlertValues, alert2 \in {<<>>} \cup {<<n>> : n \in AlertValues} :
    SetAlertsCall(g, alert1, alert2)

AlertsSpec == AlertsInit /\ [][AlertsNext]_vars

\* ------------------------------------------------------------------ claims
\* In SeqSpec and SyncSpec the running (or just finished) coroutine is tasks[1]:
\* log = the writes it made, pre = DATA_DIR when it was dispatched,
\* last = what its latest rebuild_calendar call was given, fetched and left on disk.
op == tasks[1]

RECURSIVE KeptBy(_, _, _, _)
\* the records of idx whose fetch outcome is in keep, in idx's order
KeptBy(idx, outs, keep, i) ==
  IF i > Len(idx) THEN <<>>
  ELSE (IF outs[i] \in keep THEN <<idx[i]>> ELSE <<>>) \o KeptBy(idx, outs, keep, i + 1)

Rebuilt == op.last.uid # NoUser

\* C1 (as amended): after rebuild_calendar(user, idx), run alone, the saved index is
\* idx without the records whose fetch raised 404 or returned no event; the records
\* whose fetch returned an event or failed otherwise are there, in idx's order.
C1_PrunesGone ==
  Rebuilt => op.last.index = KeptBy(op.last.idx, op.last.outs, {"ok", "error"}, 1)

\* C1 as stated: only the records whose fetch raised 404 are dropped.
C1_AsStated ==
  Rebuilt => op.last.index = KeptBy(op.last.idx, op.last.outs, {"ok", "error", "none"}, 1)

C1_Witness ==
  /\ Rebuilt
  /\ op.last.outs = <<"error", "e404">>
  /\ op.last.index = <<op.last.idx[1]>>

\* the VEVENTs of the records of idx whose fetch outcome is in keep
VeventsOf(idx, outs, keep) ==
  {EventToIcs(Fetched(idx[i]), idx[i].guild_id) : i \in {j \in 1..Len(idx) : outs[j] \in keep}}

\* C2 (as amended): the .ics file rebuild_calendar wrote holds a VEVENT for exactly
\* the records whose fetch returned an event; a record kept in the index after a
\* fetch that failed with a non-404 error has no VEVENT in that file.
C2_VeventPerFetched ==
  Rebuilt => op.last.ics = VeventsOf(op.last.idx, op.last.outs, {"ok"})

\* C2 as stated: a VEVENT for every record that remains in the saved index.
C2_AsStated ==
  Rebuilt => \A r \in Range(op.last.index) :
                EventToIcs(Fetched(r), r.guild_id) \in op.last.ics

C2_Witness ==
  /\ Rebuilt
  /\ op.last.outs = <<"ok", "error">>
  /\ Len(op.last.index) = MaxEvent
  /\ Cardinality(op.last.ics) = 1

OpDone(kind) == op.track /\ op.kind = kind /\ op.pc = "done"
Resolved == op.ev \in Events /\ op.user \in Users
HadIndex(u) == IdxPath(u) \in op.pre.files
WasTracked(u) == Tracked(op.pre.idxData[u], op.ev.guild_id, op.ev.id)
\* nothing in DATA_DIR differs from what it was when the handler was dispatched
Untouched ==
  files = op.pre.files /\ idxData = op.pre.idxData /\ icsData = op.pre.icsData
UntouchedBut(u) ==
  /\ files \ {IdxPath(u), IcsPath(u)} = op.pre.files \ {IdxPath(u), IcsPath(u)}
  /\ \A v \in Users \ {u} : idxData[v] = op.pre.idxData[v] /\ icsData[v] = op.pre.icsData[v]
NoWrites == op.log.new = {} /\ op.log.sav = {} /\ op.log.ics = {} /\ op.log.reb = {}
\* the fetch of the handler's own event, in its rebuild, found the event gone
FoundGone ==
  \E i \in 1..Len(op.last.idx) :
     op.last.idx[i] = op.ev /\ op.last.outs[i] \in {"e404", "none"}

\* C4 (as amended): in a poll cycle rebuild_calendar is invoked for exactly the
\* users that have an index file <integer>.json holding a non-empty list; a file
\* whose name is no integer is skipped, and so is a user whose index is empty.
C4_PollRebuildsNonEmpty ==
  OpDone("poll") =>
    op.log.reb = {u \in Users : HadIndex(u) /\ op.pre.idxData[u] # <<>>}

\* C4 as stated: rebuild_calendar is invoked for every user with an index file.
C4_AsStated ==
  OpDone("poll") => op.log.reb = {u \in Users : HadIndex(u)}

C4_Witness ==
  /\ OpDone("poll")
  /\ StrayFile \in op.pre.files
  /\ \E u, v \in Users : /\ HadIndex(u) /\ op.pre.idxData[u] = <<>> /\ u \notin op.log.reb
                         /\ HadIndex(v) /\ v \in op.log.reb

\* C5 (as amended): after on_scheduled_event_user_add with resolvable ids the
\* user's index holds the event's record once, or not at all when the handler's
\* rebuild found the event gone; if the record was already there the handler
\* writes nothing and rebuilds nothing, so a repeated add changes nothing.
C5_AddOnce ==
  (OpDone("add") /\ Resolved) =>
    /\ Count(idxData[op.user], op.ev) = (IF FoundGone THEN 0 ELSE 1)
    /\ WasTracked(op.user) => (NoWrites /\ Untouched)

\* C5 as stated: the index always holds exactly one record for the event.
C5_AsStated ==
  (OpDone("add") /\ Resolved) =>
    /\ Count(idxData[op.user], op.ev) = 1
    /\ WasTracked(op.user) => (NoWrites /\ Untouched)


C5_Witness ==
  /\ OpDone("add") /\ Resolved
  /\ ~WasTracked(op.user)
  /\ Len(idxData[op.user]) = MaxEvent
  /\ idxData[op.user][MaxEvent] = op.ev

\* the user's index as the remove handler's filter leaves it
Reduced(u) == SelectRecs(op.pre.idxData[u], {op.ev}, 1)

\* C6 (as amended): after on_scheduled_event_user_remove the user's index holds
\* no record of the event; the other records are kept in order, except those the
\* rebuild found gone; the feed is rebuilt from the reduced index.  If the event
\* was not tracked nothing is saved or rebuilt: the only writes are the empty
\* index and empty calendar ensure_files creates when the user has none.  No
\* other user's files are touched.
C6_RemoveFrame ==
  (OpDone("remove") /\ Resolved) =>
    /\ ~Tracked(idxData[op.user], op.ev.guild_id, op.ev.id)
    /\ UntouchedBut(op.user)
    /\ WasTracked(op.user) =>
         /\ op.log.reb = {op.user}
         /\ op.last.idx = Reduced(op.user)
         /\ idxData[op.user] = KeptBy(op.last.idx, op.last.outs, {"ok", "error"}, 1)
         /\ icsData[op.user] = VeventsOf(op.last.idx, op.last.outs, {"ok"})
    /\ ~WasTracked(op.user) =>
         /\ op.log.sav = {} /\ op.log.ics = {} /\ op.log.reb = {}
         /\ op.log.new = {IdxPath(op.user), IcsPath(op.user)} \ op.pre.files
         /\ idxData[op.user] = op.pre.idxData[op.user]
         /\ icsData[op.user] = op.pre.icsData[op.user]

\* C6 as stated: every other record is kept, and an untracked event means that
\* neither file of the user is written.
C6_AsStated ==
  (OpDone("remove") /\ Resolved) =>
    /\ ~Tracked(idxData[op.user], op.ev.guild_id, op.ev.id)
    /\ UntouchedBut(op.user)
    /\ idxData[op.user] = Reduced(op.user)
    /\ WasTracked(op.user) => (op.log.reb = {op.user} /\ op.last.idx = Reduced(op.user))
    /\ ~WasTracked(op.user) => NoWrites

C6_Witness ==
  /\ OpDone("remove") /\ Resolved
  /\ WasTracked(op.user)
  /\ Len(op.pre.idxData[op.user]) = MaxEvent
  /\ idxData[op.user] # <<>>
  /\ \E v \in Users \ {op.user} : idxData[v] # <<>>


\* C7: when on_scheduled_event_delete has finished, no user's index holds a record
\* of the deleted event, and an index or feed was written only for users whose
\* index held the event.
C7_DeleteEverywhere ==
  (OpDone("delete") /\ op.ev \in Events) =>
    /\ \A u \in Users : ~Tracked(idxData[u], op.ev.guild_id, op.ev.id)
    /\ op.log.sav \cup op.log.ics \cup op.log.reb = {u \in Users : WasTracked(u)}
    /\ op.log.new = {}
    /\ \A u \in Users : ~WasTracked(u) =>
          idxData[u] = op.pre.idxData[u] /\ icsData[u] = op.pre.icsData[u]
    /\ files = op.pre.files

C7_Witness ==
  /\ OpDone("delete") /\ op.ev \in Events
  /\ StrayFile \in files
  /\ \E u, v \in Users : /\ WasTracked(u) /\ idxData[u] # <<>>
                         /\ ~WasTracked(v) /\ idxData[v] # <<>>

\* C8: on_scheduled_event_update calls rebuild_calendar for exactly the users whose
\* index holds the updated event, and adds no record to any index.
C8_UpdateFrame ==
  (OpDone("update") /\ op.ev \in Events) =>
    /\ op.log.reb = {u \in Users : WasTracked(u)}
    /\ \A u \in Users : Range(idxData[u]) \subseteq Range(op.pre.idxData[u])
    /\ \A u \in Users : ~WasTracked(u) =>
          idxData[u] = op.pre.idxData[u] /\ icsData[u] = op.pre.icsData[u]

C8_Witness ==
  /\ OpDone("update") /\ op.ev \in Events
  /\ StrayFile \in files
  /\ \E u, v \in Users : /\ u \in op.log.reb /\ Len(idxData[u]) = MaxEvent
                         /\ v \notin op.log.reb /\ idxData[v] # <<>>

\* C9 (as amended): after on_scheduled_event_create with a resolved creator and
\* event id, the creator's index holds the event's record unless the handler's
\* rebuild found the event gone; the feed is rebuilt from that index when the
\* record was added, and nothing is written when it was already there.  If the
\* creator or the event id cannot be resolved, no file is created or changed.
C9_CreatorSubscribed ==
  OpDone("create") =>
    /\ Resolved =>
         /\ Count(idxData[op.user], op.ev) = (IF FoundGone THEN 0 ELSE 1)
         /\ WasTracked(op.user) => (NoWrites /\ Untouched)
         /\ ~WasTracked(op.user) =>
              /\ op.log.reb = {op.user}
              /\ op.last.idx = Append(op.pre.idxData[op.user], op.ev)
              /\ icsData[op.user] = VeventsOf(op.last.idx, op.last.outs, {"ok"})
    /\ ~Resolved => (NoWrites /\ Untouched)

\* C9 as stated: with a resolved creator the index holds the record and the feed
\* has been rebuilt by the handler.
C9_AsStated ==
  OpDone("create") =>
    /\ Resolved =>
         /\ Tracked(idxData[op.user], op.ev.guild_id, op.ev.id)
         /\ op.log.reb = {op.user}
    /\ ~Resolved => (NoWrites /\ Untouched)

C9_Witness ==
  /\ OpDone("create") /\ Resolved
  /\ ~WasTracked(op.user)
  /\ Len(idxData[op.user]) = MaxEvent
  /\ op.ev \in Range(idxData[op.user])


\* the event is in no user's index and in no user's .ics file
Absent(e) ==
  \A u \in Users : ~Tracked(idxData[u], e.guild_id, e.id)
                   /\ EventToIcs(Fetched(e), e.guild_id) \notin icsData[u]

\* C3: once a scheduled event is deleted on Discord and the poller keeps cycling,
\* the event is eventually absent from every index and every .ics file, for good.
C3_EventuallyAbsent ==
  \A e \in Events : [](evState[e] = "deleted" => <>[]Absent(e))

\* what the scan was told: the (event, subscriber) pairs ev.subscribers() returned
Seen == op.log.seen

\* C10: when sync_existing_events finishes, every subscriber the scan saw has a
\* record of the event in their index, unless the event vanished from Discord
\* during the scan; no index holds a record twice.
C10_SyncBackfills ==
  OpDone("sync") =>
    /\ \A p \in Seen : evState[p[1]] = "live" =>
          Count(idxData[p[2]], p[1]) = 1
    /\ \A u \in Users, e \in Events : Count(idxData[u], e) <= 1

C10_Witness ==
  /\ OpDone("sync")
  /\ \E p, q \in Seen :
        /\ evState[p[1]] = "live"
        /\ ~Tracked(op.pre.idxData[p[2]], p[1].guild_id, p[1].id)
        /\ Tracked(idxData[p[2]], p[1].guild_id, p[1].id)
        /\ evState[q[1]] = "deleted"
        /\ ~Tracked(idxData[q[2]], q[1].guild_id, q[1].id)

Called(fn) == call.fn = fn

C15_OnlyMissing ==
  Called("ensure_files") =>
    LET u == call.uid
        p == call.pre
    IN /\ IdxPath(u) \in p.files => (idxData[u] = p.idxData[u] /\ raw[u] = p.raw[u])
       /\ IcsPath(u) \in p.files => icsData[u] = p.icsData[u]
       /\ IdxPath(u) \notin p.files => (idxData[u] = <<>> /\ raw[u] = "list")
       /\ IcsPath(u) \notin p.files => icsData[u] = {}
       /\ files = p.files \cup {IdxPath(u), IcsPath(u)}
       /\ \A v \in Users \ {u} :
             idxData[v] = p.idxData[v] /\ raw[v] = p.raw[v] /\ icsData[v] = p.icsData[v]
       /\ LoadIndex(World(1), u) =
            LoadIndex([World(1) EXCEPT !.files = p.files, !.idxData = p.idxData,
                                       !.raw = p.raw], u)

C15_Witness ==
  /\ Called("ensure_files")
  /\ IdxPath(call.uid) \in call.pre.files
  /\ Len(idxData[call.uid]) = 2
  /\ IcsPath(call.uid) \notin call.pre.files
  /\ icsData[call.uid] = {}

AfterSlashes(base) ==
  LET i == Find(base, <<"/", "/">>, 1)
  IN IF i = 0 THEN base ELSE SubSeq(base, i + 2, Len(base))

\* C13: feed_url(uid) starts with webcal://, contains str(uid), and contains
\* BASE_URL with its scheme prefix removed, for every uid and every BASE_URL.
C13_FeedUrlShape ==
  Called("feed_url") =>
    /\ StartsWith(call.out, Chars("webcal://"))
    /\ Contains(call.out, Digits(call.uid))
    /\ Contains(call.out, AfterSlashes(call.BASE_URL))

\* a numeral of one to three digits, a dot and a digit: what `-?\d{1,3}\.\d+` spells
ShortDecimal(n) == Len(n.int) \in 1..3 /\ n.int # <<"x">> /\ Len(n.frac) = 2
\* a decimal number: digits, a dot, digits, with an optional minus sign
Decimal(n) == Len(n.int) >= 1 /\ n.int # <<"x">> /\ Len(n.frac) = 2
\* the two numerals are separated by a comma, blanks allowed after it and around
CommaPair(p) == p.sep \in {<<",">>, <<",", " ">>} /\ p.trail \in {<<>>, <<" ">>}

LocCall == Called("event_to_ics") /\ call.fam = "loc" /\ LocOf(call.parts) # <<>>
HasGeo(e) == e.geo # <<>>
MapSearch(loc) == Chars("https://www.google.com/maps/search/") \o QuotePlus(loc)

\* C16 (as amended): for an event whose metadata has a non-empty location string,
\* the VEVENT's LOCATION is that string; it has a GEO exactly when the string is
\* "lat,lon" with each number an optional minus, one to three digits, a dot and
\* at least one digit (blanks allowed around and after the comma); otherwise it
\* has no GEO and its URL is the map search for the location.
C16_GeoForShortDecimals ==
  LocCall =>
    /\ call.out.location = LocOf(call.parts)
    /\ HasGeo(call.out) <=>
          (CommaPair(call.parts) /\ ShortDecimal(call.parts.n1) /\ ShortDecimal(call.parts.n2))
    /\ ~HasGeo(call.out) => call.out.url = MapSearch(LocOf(call.parts))

\* C16 as stated: a GEO exactly when the string is a lat,lon pair of decimal numbers.
C16_AsStated ==
  LocCall =>
    /\ call.out.location = LocOf(call.parts)
    /\ HasGeo(call.out) <=>
          (CommaPair(call.parts) /\ Decimal(call.parts.n1) /\ Decimal(call.parts.n2))
    /\ ~HasGeo(call.out) => call.out.url = MapSearch(LocOf(call.parts))

C16_Witness ==
  /\ LocCall
  /\ HasGeo(call.out)
  /\ call.parts.lead = <<" ">> /\ call.parts.sep = <<",", " ">>
  /\ call.parts.n2.sign = <<"-">> /\ Len(call.parts.n1.int) = 3
  /\ call.out.url = <<>>

IsRRule(prop) == prop.name = "RRULE"
\* the values of the VEVENT's RRULE properties, in the order they are written
RRules(e) ==
  LET r == SelectSeq(e.extra, IsRRule) IN [i \in 1..Len(r) |-> r[i].value]

\* C17: the RRULE properties of the VEVENT are the rules of the event's recurrence
\* list, one per rule and in the list's order; with no recurrence there is none.
C17_RRulePerRule ==
  Called("event_to_ics") => RRules(call.out) = call.a.ev.recurrence

C17_Witness ==
  /\ Called("event_to_ics")
  /\ call.a.ev.recurrence = <<<<"W">>, <<"D">>, <<"W">>>>
  /\ Len(call.out.extra) = MaxRules + 1
  /\ RRules(call.out) = <<<<"W">>, <<"D">>, <<"W">>>>

\* C18: two VEVENTs have the same UID exactly when they were built for the same
\* (event id, guild id), whatever the events' names, times or locations.
C18_UidStable ==
  Called("event_to_ics") =>
    ((call.out.uid = call.out2.uid)
       <=> (call.a.ev.id = call.b.ev.id /\ call.a.guild_id = call.b.guild_id))

C18_Witness ==
  /\ Called("event_to_ics") /\ call.fam = "uid"
  /\ call.a.ev.id = 11 /\ call.a.guild_id = 12
  /\ call.b.ev.id = 11 /\ call.b.guild_id = 12
  /\ call.a.ev.name # call.b.ev.name
  /\ call.a.ev.entity_metadata # call.b.ev.entity_metadata
  /\ call.out.uid = call.out2.uid

IsSequence(prop) == prop.name = "SEQUENCE"
\* the SEQUENCE of a VEVENT; RFC 5545: 0 when the property is absent
SequenceOf(e) ==
  LET q == SelectSeq(e.extra, IsSequence) IN IF q = <<>> THEN 0 ELSE ParseInt(q[1].value)

\* C19: an event edited between two rebuilds gets a strictly greater SEQUENCE in
\* the later one; an event that was not edited keeps its SEQUENCE.
C19_SequenceGrows ==
  (Called("event_to_ics") /\ call.fam = "seq") =>
    /\ call.edited => SequenceOf(call.out2) > SequenceOf(call.out)
    /\ ~call.edited => SequenceOf(call.out2) = SequenceOf(call.out)

\* C11: once the bot is ready, sync_existing_events has been started exactly once,
\* and at most one poller and at most one HTTP server task have been started.
C11_StartedOnce ==
  spawn.made[<<"sync_existing_events", NoUser>>] > 0 =>
    /\ spawn.made[<<"sync_existing_events", NoUser>>] = 1
    /\ spawn.made[<<"poll_new_events", NoUser>>] <= 1
    /\ spawn.made[<<"run_http", NoUser>>] <= 1

\* C12: a /mycalendar invocation that has ended has sent a follow-up reply and has
\* created one background rebuild for its user; the reply says to check DMs exactly
\* when the DM was delivered, and reports the failure when the send raised Forbidden.
C12_AlwaysFollowsUp ==
  \A t \in Tasks :
    (tasks[t].kind = "mycalendar" /\ tasks[t].pc = "done") =>
      /\ tasks[t].reply # "none"
      /\ spawn.made[<<"_rebuild_async", tasks[t].user>>] = tasks[t].pre.made + 1
      /\ (tasks[t].reply = "check_dms") <=> (tasks[t].dm = "ok")
      /\ (tasks[t].dm = "Forbidden") => (tasks[t].reply = "dm_failed")


Positive(a) == a = <<>> \/ a[1] > 0

C22_NoDuplicates ==
  \A u \in Users : \A i, j \in 1..Len(idxData[u]) :
    Matches(idxData[u][i], idxData[u][j].guild_id, idxData[u][j].id) => i = j

\* two rebuilds of one user are suspended at a fetch, each holding another copy of
\* the index, the same record in both, while the saved index holds every event
C22_Witness ==
  \E t1, t2 \in Tasks, u \in Users, e \in Events :
    /\ tasks[t1].pc = "fetch" /\ tasks[t2].pc = "fetch"
    /\ tasks[t1].uid = u /\ tasks[t2].uid = u
    /\ tasks[t1].idx # tasks[t2].idx
    /\ e \in Range(tasks[t1].idx) /\ e \in Range(tasks[t2].idx)
    /\ Len(idxData[u]) = MaxEvent


\* a step of the coroutine in slot t
Steps(t) == tasks'[t] # tasks[t]

\* record r leaves the saved index of user u in this step
Dropped(u, r) == r \in Range(idxData[u]) /\ r \notin Range(idxData'[u])

\* C23: a record leaves a user's saved index only in a step of a remove handler for
\* that record and user, of a delete handler for that event, or of a rebuild that
\* was given the record and pruned it after its own fetch of that event.
C23_NoLostUpdate ==
  [][\A u \in Users, r \in Events :
       Dropped(u, r) =>
         \E t \in Tasks :
           \/ StartRemove(t, r, u, FALSE)
           \/ StartDelete(t, r, FALSE)
           \/ Steps(t) /\ tasks[t].kind = "delete" /\ tasks[t].ev = r
           \/ Steps(t) /\ tasks[t].pc = "fetch" /\ tasks[t].uid = u
                 /\ r \in Range(tasks[t].idx)]_vars


\* the id is the decimal text of an integer
SpellsInteger(id) == id # <<>> /\ \A i \in 1..Len(id) : id[i] \in DigitChars

\* /mycalendar has run for user u: it is past ensure_files, or has ended with its
\* rebuild handed over
MyCalendarRan(u) ==
  \/ spawn.made[<<"_rebuild_async", u>>] > 0
  \/ \E t \in Tasks : /\ tasks[t].kind = "mycalendar" /\ tasks[t].user = u
                       /\ tasks[t].pc \in {"dm_user", "dm_send", "followup"}

\* what a GET of user u's feed link is answered with now
LinkStatus(u) == HandleFeed(files, RouteId(UrlPath(FeedUrl(DefaultBaseUrl, u))))

\* C24: GET /cal/<id>.ics answers 404 exactly when <id> is no integer or that
\* user's .ics file does not exist; an .ics file that exists is never removed; and
\* once /mycalendar has run for a user, the user's feed link does not answer 404.
C24_FeedAvailable ==
  /\ [](Called("handle_feed") =>
          ((call.status = 404) <=>
             (~SpellsInteger(call.id) \/ IcsPath(ParseInt(call.id)) \notin call.files)))
  /\ [](\A u \in Users : MyCalendarRan(u) => LinkStatus(u) # 404)
  /\ [][\A u \in Users : IcsPath(u) \in files => IcsPath(u) \in files']_vars

\* the feed of a user whose /mycalendar has ended is requested under an id with a
\* leading zero and is served, while another id of digits is answered 404
C24_Witness ==
  /\ Called("handle_feed")
  /\ spawn.made[<<"_rebuild_async", Min(Users)>>] > 0
  /\ call.id = <<"0">> \o Digits(Min(Users))
  /\ call.status = 200
  /\ HandleFeed(files, <<"0">>) = 404

====
